---- MODULE Spec2Model ----
(***************************************************************************)
(* The generation-status monitor of the results page: the polling effect   *)
(* (fetchStatus, driven by an initial call and by setInterval), the stop   *)
(* handler (handleStopGeneration) and the render branches that expose the  *)
(* state.  Every await of the source is a suspension point: a call of      *)
(* fetchStatus is an element of the bag `inflight` whose pc names the await *)
(* it is suspended at; each resolution of an await is one action that runs  *)
(* the code up to the next await or to the end of the call.                *)
(***************************************************************************)
EXTENDS Integers, FiniteSets, Sequences, Bags, TLC

\* ------------------------------------------------------------------ bounds
\* Poll cycles (calls of fetchStatus) started since the page was mounted.
MaxAttempts == 3
\* Calls of fetchStatus suspended at the same time.
MaxInFlight == 2
\* Changes of the route parameter id while the page stays mounted.
MaxIdChanges == 1
\* Largest poll count handed to the progress estimator.
MaxEstN == 70
\* Calls of login started since the provider was mounted.
MaxLogins == 3

\* ------------------------------------------------------- program constants
\* Math.min(10 + 80 * (pollCount / 60), 90) and setProgress(100).
EstFloor == 10
EstSlope == 80
EstDen == 60
EstCap == 90
Full == 100
\* Math.round works on the decimal number the server sends: the model holds
\* elapsedTime of a response in tenths of a second.
Tenths == 10

NoError == ""
ServerMsg == "generation failed on the server"
DefaultErrorMsg == "An error occurred during generation"
StoppedMsg == "Task has been stopped by user request."
\* A catch block that records no message.
noMessage == ""
CheckFailedMsg == "Error checking generation status: Network Error"
StopFailedMsg == "Failed to stop task: Network Error"

NoResult == "null"
ResultText == "# report"

\* A descriptive field a response does not carry (undefined, or the empty
\* string: both are falsy), and the model name the merge ignores.
Absent == "none"
UnknownModel == "unknown"
\* defaultGenerationDetails
LoadingPrompt == "Loading prompt..."
LoadingModel == "Loading model..."

\* ---------------------------------------------------------------- state
VARIABLES
    \* useState of ResultsPage
    generationStatus, loading, error, result, progress, elapsedTime,
    stopConfirmOpen, stopInProgress,
    generationDetails,  \* [model, searchEngine, prompt]
    \* the component and the closure of the polling effect
    mounted,        \* FALSE once the page is unmounted
    sess,           \* how many times id has changed: names the effect closure
    pollCount,      \* pollCount of each effect closure
    pollInterval,   \* "armed" | "cleared": the interval of the current closure
    inflight,       \* bag of the suspended calls of fetchStatus: [sess, first, pc]
    stopsInFlight,  \* stopTask requests not yet settled: the closure each was made under
    \* observers (they record what happened; no action reads them)
    attempts,       \* calls of fetchStatus started since the page was mounted
    firstFallback,  \* fate of the direct result fetch of the closure's first call
    stopAcked,      \* a stopTask request has succeeded for the current id
    scenario,       \* progress through the sequence generating, generating, completed
    \* the estimator applied to a poll count
    estN, estPhase, estCur, estNext,
    \* the server
    serverCompleted, \* the job is done: from now on every response says so
    \* useState of AuthProvider, and the two web storages
    token, user, authLoading, localStorage, sessionStorage,
    pendingLogins,  \* bag of the calls of login suspended at loginUser: [remember]
    logins,         \* calls of login started since the provider was mounted
    lastOp,         \* the operation that completed last
    lastRemember    \* remember of the login that resolved last

compVars == <<generationStatus, loading, error, result, progress, elapsedTime,
              stopConfirmOpen, stopInProgress, generationDetails>>
effectVars == <<mounted, sess, pollCount, pollInterval, inflight, stopsInFlight>>
obsVars == <<attempts, firstFallback, stopAcked, scenario>>
estVars == <<estN, estPhase, estCur, estNext>>
envVars == <<serverCompleted>>
authVars == <<token, user, authLoading, localStorage, sessionStorage,
              pendingLogins, logins, lastOp, lastRemember>>
vars == <<compVars, effectVars, obsVars, estVars, envVars, authVars>>

\* ------------------------------------------------------------- helpers
Min(a, b) == IF a <= b THEN a ELSE b

\* Progress is held as a numerator over EstDen, so that 10 + 80 * n / 60 is exact.
Pct(p) == p * EstDen

\* The estimator without its cap.
uncappedProgress(n) == Pct(EstFloor) + EstSlope * n

\* const simulatedProgress = Math.min(10 + 80 * (pollCount / 60), 90)
simulatedProgress(n) == Min(Pct(EstFloor) + EstSlope * n, Pct(EstCap))

\* Math.round of a number given in tenths: halves round up.
MathRound(t) == (t + (Tenths \div 2)) \div Tenths

\* A branch that ends without clearing the interval.
intervalKept(f) == pollInterval

\* clearInterval(pollInterval) in the closure of call f: the interval of an
\* earlier closure was already cleared by the effect's cleanup.
ClearInterval(f) == IF f.sess = sess THEN "cleared" ELSE pollInterval

\* The branch of the render function that is shown.
View ==
    IF loading /\ generationStatus # "completed" THEN "loading"
    ELSE IF error # NoError THEN "error"
    ELSE "result"

\* The state the page exposes, read off the render function: the loading branch
\* is Generating; the error branch shows the stop message or an error; the
\* result branch shows Complete, Stopped or In Progress by the cached status.
ViewState ==
    CASE View = "loading" -> "Generating"
      [] View = "error" -> IF error = StoppedMsg THEN "Stopped" ELSE "Error"
      [] OTHER -> IF generationStatus = "completed" THEN "Completed"
                  ELSE IF generationStatus = "stopped" THEN "Stopped"
                  ELSE "Generating"

\* The same state read off the cached status first, and off the error message
\* where the status says nothing (the catch block sets no status).
StatusState ==
    CASE generationStatus = "completed" -> "Completed"
      [] generationStatus = "stopped" -> "Stopped"
      [] generationStatus = "error" -> "Error"
      [] OTHER -> IF error \in {ServerMsg, DefaultErrorMsg, CheckFailedMsg}
                  THEN "Error" ELSE "Generating"

TerminalStates == {"Completed", "Error", "Stopped"}

\* ------------------------------------------------------ server responses
\* getGenerationStatus(id) resolves with a payload {status, elapsedTime?, error?};
\* elapsedTime 0 stands for a payload without the field (both are falsy), and
\* error is read only in the branch of status error.
ElapsedInputs == {0, 4, 50, 100}
StatusValues == {"generating", "completed", "error", "stopped", "unknown"}
\* The descriptive fields of a response (status or result): each is carried or
\* not, and the model may be carried as 'unknown'.
ModelInputs == {Absent, UnknownModel, "gpt-4o"}
SearchEngineInputs == {Absent, "google"}
PromptInputs == {Absent, "write a report"}
DetailInputs ==
    [model : ModelInputs, searchEngine : SearchEngineInputs, prompt : PromptInputs]
\* A response that carries none of the descriptive fields, and one that carries
\* them all.  In the runs of Spec the fields come with the result; the runs of
\* DetSpec put every combination of them in status and result responses alike.
NoDetails == [model |-> Absent, searchEngine |-> Absent, prompt |-> Absent]
AllDetails == [model |-> "gpt-4o", searchEngine |-> "google", prompt |-> "write a report"]

StatusPayloadsWith(details) ==
    {p \in [status : StatusValues, elapsedTime : ElapsedInputs,
            error : {NoError, ServerMsg}, details : details] :
        p.error # NoError => p.status = "error"}
StatusPayloads == StatusPayloadsWith({NoDetails})

\* getGenerationResult(id) resolves with a usable payload {result, model?,
\* searchEngine?, prompt?}.
ResultPayloadsWith(details) == [details : details]
ResultPayloads == ResultPayloadsWith({NoDetails, AllDetails})

\* ------------------------------------------------------------- Init
\* The state after the first render and the first run of the polling effect:
\* fetchStatus() has run up to its first await (reloadTasks, as pollCount is 0)
\* and setInterval has armed the timer.
NewCall(s, isFirst) ==
    [sess |-> s, first |-> isFirst,
     pc |-> IF pollCount[s] = 0 THEN "reload" ELSE "status"]

\* The fields of defaultGenerationDetails that the responses are merged into.
defaultGenerationDetails ==
    [model |-> LoadingModel, searchEngine |-> Absent, prompt |-> LoadingPrompt]

EstIdle ==
    /\ estN = 0
    /\ estPhase = "idle"
    /\ estCur = 0
    /\ estNext = 0

Mount(details) ==
    /\ generationStatus = "generating"
    /\ loading = TRUE
    /\ error = NoError
    /\ result = NoResult
    /\ progress = 0
    /\ elapsedTime = 0
    /\ stopConfirmOpen = FALSE
    /\ stopInProgress = FALSE
    /\ generationDetails = details
    /\ mounted = TRUE
    /\ sess = 0
    /\ pollCount = [s \in 0..MaxIdChanges |-> 0]
    /\ pollInterval = "armed"
    /\ inflight = SetToBag({[sess |-> 0, first |-> TRUE, pc |-> "reload"]})
    /\ stopsInFlight = <<>>
    /\ attempts = 1
    /\ firstFallback = "none"
    /\ stopAcked = FALSE
    /\ scenario = "s0"
    /\ serverCompleted = FALSE

\* useState(() => location.state || defaultGenerationDetails), on a navigation
\* that carries no state.
MainInit == Mount(defaultGenerationDetails)

\* ------------------------------------------------- the credential store
\* A storage holds the items authToken and authUser, or null for an item that
\* is not there; the in-memory token and user are null when there are none (a
\* field missing from the login response is undefined: the code tests both by
\* truthiness only).
Null == "nil"
StorageKeys == {"authToken", "authUser"}
EmptyStorage == [k \in StorageKeys |-> Null]
Tokens == {"token-1", "token-2"}
Users == {"ann"}

\* JSON.stringify of a user and JSON.parse of a stored item.
JSONStringify(u) == "{\"email\":\"" \o u \o "\"}"
JSONParse(str) == CHOOSE u \in Users : JSONStringify(u) = str

StorageWith(tok, usr) ==
    [k \in StorageKeys |-> IF k = "authToken" THEN tok ELSE JSONStringify(usr)]

\* const getStoredItem = (key) => localStorage.getItem(key) || sessionStorage.getItem(key)
getStoredItem(key) ==
    IF localStorage[key] # Null THEN localStorage[key] ELSE sessionStorage[key]

\* persistAuth writing the items whatever the response carries.
persistAlways(tok, usr, remember) ==
    [localStorage |-> IF remember THEN StorageWith(tok, usr) ELSE EmptyStorage,
     sessionStorage |-> IF remember THEN EmptyStorage ELSE StorageWith(tok, usr)]

\* persistAuth(token, user, remember): the two storages after the call.
persistAuth(tok, usr, remember) ==
    LET primaryStorage == IF remember THEN localStorage ELSE sessionStorage
        primaryAfter == IF tok # Null /\ usr # Null
                        THEN StorageWith(tok, usr) ELSE primaryStorage
    IN [localStorage |-> IF remember THEN primaryAfter ELSE EmptyStorage,
        sessionStorage |-> IF remember THEN EmptyStorage ELSE primaryAfter]

\* isAuthenticated: Boolean(token)
isAuthenticated == token # Null

\* The state after the first render of AuthProvider over the two storages.
AuthMounted(local, session) ==
    /\ localStorage = local
    /\ sessionStorage = session
    /\ token = (IF local["authToken"] # Null THEN local["authToken"]
                ELSE session["authToken"])
    /\ user = (LET stored == IF local["authUser"] # Null THEN local["authUser"]
                                                         ELSE session["authUser"]
               IN IF stored # Null THEN JSONParse(stored) ELSE Null)
    /\ authLoading = FALSE
    /\ pendingLogins = EmptyBag
    /\ logins = 0
    /\ lastOp = "none"
    /\ lastRemember = FALSE

\* The results page is shown to a user who logged in with remember set.
AuthIdle == AuthMounted(StorageWith("token-1", "ann"), EmptyStorage)

Init ==
    /\ MainInit
    /\ EstIdle
    /\ AuthIdle

\* ------------------------------------------------- the polling effect
Finish(f) == inflight (-) SetToBag({f})

Suspend(f, at) == Finish(f) (+) SetToBag({[f EXCEPT !.pc = at]})

\* A tick of setInterval(fetchStatus, 5001): fetchStatus runs to its first await.
\* Nothing in the callback looks at the calls still suspended.
TickEnabled == pollInterval = "armed"

Tick ==
    /\ TickEnabled
    /\ attempts < MaxAttempts
    /\ BagCardinality(inflight) < MaxInFlight
    /\ loading' = TRUE
    /\ inflight' = inflight (+) SetToBag({NewCall(sess, FALSE)})
    /\ attempts' = attempts + 1
    /\ scenario' = IF inflight = EmptyBag /\ stopsInFlight = <<>> /\ scenario \in {"s1", "s2"}
                   THEN scenario ELSE "off"
    /\ UNCHANGED <<generationDetails, generationStatus, error, result, progress,
                   elapsedTime,
                   stopConfirmOpen, stopInProgress, mounted, sess, pollCount,
                   pollInterval, stopsInFlight, firstFallback, stopAcked, estVars,
                   envVars, authVars>>

\* await reloadTasks() settles; a rejection is caught and only logged.
ReloadSettles(f) ==
    /\ mounted
    /\ BagIn(f, inflight)
    /\ f.pc = "reload"
    /\ inflight' = Suspend(f, "status")
    /\ UNCHANGED <<compVars, mounted, sess, pollCount, pollInterval, stopsInFlight,
                   obsVars, estVars, envVars, authVars>>

\* The catch block of fetchStatus, entered with the closure's pollCount as it is
\* now: the direct result fetch on pollCount 0, the error otherwise.
Catch(f) ==
    /\ IF pollCount[f.sess] = 0
       THEN /\ inflight' = Suspend(f, "direct")
            /\ UNCHANGED <<error, pollInterval, loading>>
       ELSE /\ error' = CheckFailedMsg
            /\ pollInterval' = ClearInterval(f)
            /\ loading' = FALSE
            /\ inflight' = Finish(f)
    /\ scenario' = "off"
    /\ UNCHANGED <<generationDetails, generationStatus, result, progress,
                   elapsedTime, stopConfirmOpen,
                   stopInProgress, mounted, sess, pollCount, stopsInFlight,
                   attempts, firstFallback, stopAcked, estVars, envVars, authVars>>

\* await getGenerationStatus(id) rejects.
StatusFails(f) ==
    /\ mounted
    /\ BagIn(f, inflight)
    /\ f.pc = "status"
    /\ Catch(f)

\* await getGenerationStatus(id) resolves with a falsy payload: nothing is applied.
StatusNull(f) ==
    /\ mounted
    /\ BagIn(f, inflight)
    /\ f.pc = "status"
    /\ inflight' = Finish(f)
    /\ scenario' = "off"
    /\ UNCHANGED <<compVars, mounted, sess, pollCount, pollInterval, stopsInFlight,
                   attempts, firstFallback, stopAcked, estVars, envVars, authVars>>

\* The details replaced by the fields of the response, carried or not.
detailsReplaced(prev, d) == d

\* setGenerationDetails(prev => ({ ...prev, field: data.field })), under the test
\* of each field: a model that is carried and is not 'unknown', a search engine
\* and a prompt that are carried.
DetailsAfter(prev, d) ==
    [model |-> IF d.model # Absent /\ d.model # UnknownModel
               THEN d.model ELSE prev.model,
     searchEngine |-> IF d.searchEngine # Absent
                      THEN d.searchEngine ELSE prev.searchEngine,
     prompt |-> IF d.prompt # Absent THEN d.prompt ELSE prev.prompt]

\* The elapsed time set from every payload, also from one without the field.
elapsedOverwritten(r) == MathRound(r.elapsedTime)

\* if (statusData.elapsedTime) setElapsedTime(Math.round(statusData.elapsedTime))
ElapsedAfter(r) ==
    IF r.elapsedTime # 0 THEN MathRound(r.elapsedTime) ELSE elapsedTime

\* The observer of the poll sequence generating(5), generating(10), completed:
\* it advances only when the payload applied is the next of the sequence and the
\* call applying it is the only call there is.
ScenarioAfterStatus(f, r) ==
    IF inflight = SetToBag({f}) /\ stopsInFlight = <<>> /\ f.sess = sess
    THEN CASE scenario = "s0" /\ r.status = "generating" /\ r.elapsedTime = 50 -> "s1"
           [] scenario = "s1" /\ r.status = "generating" /\ r.elapsedTime = 100 -> "s2"
           [] scenario = "s2" /\ r.status = "completed" /\ r.elapsedTime = 0 -> "s3"
           [] OTHER -> "off"
    ELSE "off"

\* await getGenerationStatus(id) resolves with a payload: the fields are applied
\* and the branch of its status runs, up to the await of the result when the
\* status is completed.
StatusData(f, r) ==
    /\ mounted
    /\ BagIn(f, inflight)
    /\ f.pc = "status"
    /\ generationStatus' = r.status
    /\ elapsedTime' = ElapsedAfter(r)
    /\ generationDetails' = DetailsAfter(generationDetails, r.details)
    /\ CASE r.status = "completed" ->
              /\ progress' = Pct(Full)
              /\ inflight' = Suspend(f, "result")
              /\ UNCHANGED <<error, loading, pollInterval, pollCount>>
         [] r.status = "error" ->
              /\ error' = IF r.error # NoError THEN r.error
                                          ELSE DefaultErrorMsg
              /\ pollInterval' = ClearInterval(f)
              /\ loading' = FALSE
              /\ inflight' = Finish(f)
              /\ UNCHANGED <<progress, pollCount>>
         [] r.status = "stopped" ->
              /\ error' = StoppedMsg
              /\ pollInterval' = ClearInterval(f)
              /\ loading' = FALSE
              /\ inflight' = Finish(f)
              /\ UNCHANGED <<progress, pollCount>>
         [] OTHER ->
              /\ pollCount' = [pollCount EXCEPT ![f.sess] = @ + 1]
              /\ progress' = simulatedProgress(pollCount'[f.sess])
              /\ inflight' = Finish(f)
              /\ UNCHANGED <<error, loading, pollInterval>>
    /\ scenario' = ScenarioAfterStatus(f, r)
    /\ UNCHANGED <<result, stopConfirmOpen, stopInProgress, mounted, sess,
                   stopsInFlight, attempts, firstFallback, stopAcked, estVars,
                   envVars, authVars>>

\* await getGenerationResult(id) of the completed branch resolves with a usable
\* result (resultData && resultData.result).
ResultUsable(f, r) ==
    /\ mounted
    /\ BagIn(f, inflight)
    /\ f.pc = "result"
    /\ result' = ResultText
    /\ generationDetails' = DetailsAfter(generationDetails, r.details)
    /\ pollInterval' = ClearInterval(f)
    /\ loading' = FALSE
    /\ inflight' = Finish(f)
    /\ scenario' = IF scenario = "s3" /\ inflight = SetToBag({f}) /\ stopsInFlight = <<>>
                   THEN "done" ELSE "off"
    /\ UNCHANGED <<generationStatus, error, progress, elapsedTime, stopConfirmOpen,
                   stopInProgress, mounted, sess, pollCount, stopsInFlight,
                   attempts, firstFallback, stopAcked, estVars, envVars, authVars>>

\* ... resolves with no payload or with a payload whose result is missing or
\* empty: the call ends with nothing more applied.
ResultEmpty(f) ==
    /\ mounted
    /\ BagIn(f, inflight)
    /\ f.pc = "result"
    /\ inflight' = Finish(f)
    /\ scenario' = "off"
    /\ UNCHANGED <<compVars, mounted, sess, pollCount, pollInterval, stopsInFlight,
                   attempts, firstFallback, stopAcked, estVars, envVars, authVars>>

\* ... rejects: the outer catch block runs.
ResultThrows(f) ==
    /\ mounted
    /\ BagIn(f, inflight)
    /\ f.pc = "result"
    /\ Catch(f)

FallbackAfter(f, fate) ==
    IF f.sess = sess /\ f.first THEN fate ELSE firstFallback

\* The direct getGenerationResult(id) of the catch block resolves with a usable
\* result.
DirectUsable(f, r) ==
    /\ mounted
    /\ BagIn(f, inflight)
    /\ f.pc = "direct"
    /\ result' = ResultText
    /\ generationDetails' = DetailsAfter(generationDetails, r.details)
    /\ generationStatus' = "completed"
    /\ progress' = Pct(Full)
    /\ pollInterval' = ClearInterval(f)
    /\ loading' = FALSE
    /\ inflight' = Finish(f)
    /\ firstFallback' = FallbackAfter(f, "ok")
    /\ scenario' = "off"
    /\ UNCHANGED <<error, elapsedTime, stopConfirmOpen, stopInProgress, mounted,
                   sess, pollCount, stopsInFlight, attempts, stopAcked, estVars,
                   envVars, authVars>>

\* ... rejects, or resolves without a usable result: control reaches the end of
\* the catch block either way.
DirectFails(f) ==
    /\ mounted
    /\ BagIn(f, inflight)
    /\ f.pc = "direct"
    /\ error' = CheckFailedMsg
    /\ pollInterval' = ClearInterval(f)
    /\ loading' = FALSE
    /\ inflight' = Finish(f)
    /\ firstFallback' = FallbackAfter(f, "failed")
    /\ scenario' = "off"
    /\ UNCHANGED <<generationDetails, generationStatus, result, progress,
                   elapsedTime, stopConfirmOpen,
                   stopInProgress, mounted, sess, pollCount, stopsInFlight,
                   attempts, stopAcked, estVars, envVars, authVars>>

\* ------------------------------------------------------ the stop dialog
\* The dialog is part of the loading branch of render, and is open while
\* stopConfirmOpen holds.
StopDialogShown == mounted /\ View = "loading" /\ stopConfirmOpen

\* Stop Generation of the loading branch: onClick={() => setStopConfirmOpen(true)}
OpenStopConfirm ==
    /\ mounted
    /\ View = "loading"
    /\ ~stopConfirmOpen
    /\ stopConfirmOpen' = TRUE
    /\ scenario' = "off"
    /\ UNCHANGED <<generationDetails, generationStatus, loading, error, result,
                   progress, elapsedTime,
                   stopInProgress, effectVars, attempts, firstFallback, stopAcked,
                   estVars, envVars, authVars>>

\* onClose of the dialog (and its Cancel button): setStopConfirmOpen(false)
CloseStopConfirm ==
    /\ StopDialogShown
    /\ stopConfirmOpen' = FALSE
    /\ scenario' = "off"
    /\ UNCHANGED <<generationDetails, generationStatus, loading, error, result,
                   progress, elapsedTime,
                   stopInProgress, effectVars, attempts, firstFallback, stopAcked,
                   estVars, envVars, authVars>>

\* A button that stays enabled while a stop is in progress.
stopButtonAlwaysEnabled == TRUE

\* disabled={stopInProgress} of the dialog's Stop Generation button
StopButtonEnabled == ~stopInProgress

\* handleStopGeneration, up to the call of stopTask(id)
handleStopGeneration ==
    /\ StopDialogShown
    /\ StopButtonEnabled
    /\ stopInProgress' = TRUE
    /\ stopsInFlight' = Append(stopsInFlight, sess)
    /\ scenario' = "off"
    /\ UNCHANGED <<generationDetails, generationStatus, loading, error, result,
                   progress, elapsedTime,
                   stopConfirmOpen, mounted, sess, pollCount, pollInterval, inflight,
                   attempts, firstFallback, stopAcked, estVars, envVars, authVars>>

Settle(i) == [j \in 1..(Len(stopsInFlight) - 1) |->
                 IF j < i THEN stopsInFlight[j] ELSE stopsInFlight[j + 1]]

\* stopTask(id) resolves: .then, and .finally
StopSucceeds(i) ==
    /\ mounted
    /\ i \in 1..Len(stopsInFlight)
    /\ generationStatus' = "stopped"
    /\ error' = StoppedMsg
    /\ stopConfirmOpen' = FALSE
    /\ stopInProgress' = FALSE
    /\ stopsInFlight' = Settle(i)
    /\ stopAcked' = IF stopsInFlight[i] = sess THEN TRUE ELSE stopAcked
    /\ scenario' = "off"
    /\ UNCHANGED <<generationDetails, loading, result, progress, elapsedTime,
                   mounted, sess, pollCount,
                   pollInterval, inflight, attempts, firstFallback, estVars,
                   envVars, authVars>>

\* stopTask(id) rejects: .catch, and .finally
StopFails(i) ==
    /\ mounted
    /\ i \in 1..Len(stopsInFlight)
    /\ error' = StopFailedMsg
    /\ stopConfirmOpen' = FALSE
    /\ stopInProgress' = FALSE
    /\ stopsInFlight' = Settle(i)
    /\ scenario' = "off"
    /\ UNCHANGED <<generationDetails, generationStatus, loading, result, progress,
                   elapsedTime, mounted,
                   sess, pollCount, pollInterval, inflight, attempts, firstFallback,
                   stopAcked, estVars, envVars, authVars>>

\* ------------------------------------------- the lifetime of the effect
\* The route parameter id changes: the cleanup of the effect clears the interval,
\* and the effect runs again with a closure of its own (pollCount 0, a new
\* interval) and calls fetchStatus.  The component's state is kept.
ChangeId ==
    /\ mounted
    /\ sess < MaxIdChanges
    /\ attempts < MaxAttempts
    /\ BagCardinality(inflight) < MaxInFlight
    /\ sess' = sess + 1
    /\ loading' = TRUE
    /\ inflight' = inflight (+) SetToBag({NewCall(sess + 1, TRUE)})
    /\ pollInterval' = "armed"
    /\ attempts' = attempts + 1
    /\ firstFallback' = "none"
    /\ stopAcked' = FALSE
    /\ scenario' = "off"
    /\ UNCHANGED <<generationDetails, generationStatus, error, result, progress,
                   elapsedTime,
                   stopConfirmOpen, stopInProgress, mounted, pollCount,
                   stopsInFlight, estVars, envVars, authVars>>

\* The page is unmounted: the cleanup of the effect clears the interval.  The
\* calls and the stop requests still suspended run on against a component that
\* is gone: each setter is a no-op and the interval is cleared already, so the
\* state at the unmount is the last one and they are followed no further.
Teardown ==
    /\ mounted
    /\ mounted' = FALSE
    /\ pollInterval' = "cleared"
    /\ scenario' = "off"
    /\ inflight' = EmptyBag
    /\ stopsInFlight' = <<>>
    /\ UNCHANGED <<compVars, sess, pollCount, attempts,
                   firstFallback, stopAcked, estVars, envVars, authVars>>

\* ---------------------------------------------------- specification
\* Each await settles for some suspended call, with some payload.
OnReloadSettled == \E f \in BagToSet(inflight) : ReloadSettles(f)
OnStatusFailed == \E f \in BagToSet(inflight) : StatusFails(f)
OnStatusNull == \E f \in BagToSet(inflight) : StatusNull(f)
OnStatusData == \E f \in BagToSet(inflight), r \in StatusPayloads : StatusData(f, r)
OnResultUsable == \E f \in BagToSet(inflight), r \in ResultPayloads : ResultUsable(f, r)
OnResultEmpty == \E f \in BagToSet(inflight) : ResultEmpty(f)
OnResultThrown == \E f \in BagToSet(inflight) : ResultThrows(f)
OnDirectUsable == \E f \in BagToSet(inflight), r \in ResultPayloads : DirectUsable(f, r)
OnDirectFailed == \E f \in BagToSet(inflight) : DirectFails(f)
OnStopSucceeded == \E i \in 1..Len(stopsInFlight) : StopSucceeds(i)
OnStopFailed == \E i \in 1..Len(stopsInFlight) : StopFails(i)

Next ==
    \/ Tick
    \/ OnReloadSettled
    \/ OnStatusFailed
    \/ OnStatusNull
    \/ OnStatusData
    \/ OnResultUsable
    \/ OnResultEmpty
    \/ OnResultThrown
    \/ OnDirectUsable
    \/ OnDirectFailed
    \/ OpenStopConfirm
    \/ CloseStopConfirm
    \/ handleStopGeneration
    \/ OnStopSucceeded
    \/ OnStopFailed
    \/ ChangeId
    \/ Teardown

Spec == Init /\ [][Next]_vars

\* ------------------------------------------- the estimator on its own
\* The estimator is a function of the poll count alone: it is applied to every
\* count up to MaxEstN and to its successor.
EstInit ==
    /\ MainInit
    /\ estN \in 0..MaxEstN
    /\ estPhase = "in"
    /\ estCur = 0
    /\ estNext = 0
    /\ AuthIdle

EstApply ==
    /\ estPhase = "in"
    /\ estCur' = simulatedProgress(estN)
    /\ estNext' = simulatedProgress(estN + 1)
    /\ estPhase' = "out"
    /\ UNCHANGED <<estN, compVars, effectVars, obsVars, envVars, authVars>>

EstNextStep == EstApply

EstSpec == EstInit /\ [][EstNextStep]_vars

\* ------------------------------------------- the field merge on its own
\* The page is mounted with the details the navigation carried (location.state)
\* or with the defaults, and the responses carry every combination of the
\* descriptive fields.
KnownDetails ==
    [model : {LoadingModel, "o1"}, searchEngine : {Absent, "bing"},
     prompt : {LoadingPrompt, "first prompt"}]

DetInit ==
    /\ \E details \in KnownDetails : Mount(details)
    /\ EstIdle
    /\ AuthIdle

\* The status responses of these runs: still processing or completed, with an
\* elapsed time of 5 s or without one, and no error message.
DetStatusPayloads ==
    [status : {"generating", "completed"}, elapsedTime : {0, 50},
     error : {NoError}, details : DetailInputs]

DetStatusData ==
    \E f \in BagToSet(inflight), r \in DetStatusPayloads : StatusData(f, r)
DetResultUsable ==
    \E f \in BagToSet(inflight), r \in ResultPayloadsWith(DetailInputs) : ResultUsable(f, r)
DetDirectUsable ==
    \E f \in BagToSet(inflight), r \in ResultPayloadsWith(DetailInputs) : DirectUsable(f, r)

DetNext ==
    \/ Tick
    \/ OnReloadSettled
    \/ OnStatusFailed
    \/ DetStatusData
    \/ DetResultUsable
    \/ DetDirectUsable

DetSpec == DetInit /\ [][DetNext]_vars

\* ------------------------------------------- a job that completes
\* Polling alone: no stop request, no unmount, no change of id and no failing
\* fetch.  The server answers still processing or completed until the job is
\* done, and from then on completed with a usable result.  The last poll cycle
\* the bound allows is answered by a server whose job is done.
JobRunning == ~serverCompleted /\ attempts < MaxAttempts

LivePayloads ==
    {p \in StatusPayloadsWith({NoDetails}) :
        p.status \in {"generating", "completed"} /\ p.elapsedTime \in {0, 50}}

ServerCompletes ==
    /\ mounted
    /\ ~serverCompleted
    /\ serverCompleted' = TRUE
    /\ UNCHANGED <<compVars, effectVars, obsVars, estVars, authVars>>

LiveStatusData ==
    \E f \in BagToSet(inflight), r \in LivePayloads :
        /\ ~JobRunning => r.status = "completed"
        /\ StatusData(f, r)

LiveStatusNull == JobRunning /\ OnStatusNull

LiveResultUsable ==
    \E f \in BagToSet(inflight), r \in ResultPayloadsWith({NoDetails}) : ResultUsable(f, r)

LiveResultEmpty == JobRunning /\ OnResultEmpty

LiveNext ==
    \/ Tick
    \/ OnReloadSettled
    \/ LiveStatusData
    \/ LiveStatusNull
    \/ LiveResultUsable
    \/ LiveResultEmpty
    \/ ServerCompletes

\* Every tick of the interval fires and every outstanding request settles.
LiveFairness ==
    /\ WF_vars(Tick)
    /\ WF_vars(OnReloadSettled)
    /\ WF_vars(LiveStatusData \/ LiveStatusNull)
    /\ WF_vars(LiveResultUsable \/ LiveResultEmpty)

LiveSpec == Init /\ [][LiveNext]_vars /\ LiveFairness

\* ------------------------------------------- the credential store on its own
\* The storages the provider is mounted over are those an earlier page load
\* left: both empty, or one of them holding a token and its user.
StoredStates ==
    {<<EmptyStorage, EmptyStorage>>}
    \cup {<<StorageWith(t, u), EmptyStorage>> : t \in Tokens, u \in Users}
    \cup {<<EmptyStorage, StorageWith(t, u)>> : t \in Tokens, u \in Users}

AuthInit ==
    /\ MainInit
    /\ EstIdle
    /\ \E st \in StoredStates : AuthMounted(st[1], st[2])

pageVars == <<compVars, effectVars, obsVars, estVars, envVars>>

\* The response of loginUser: data.access_token and data.user, each carried or
\* missing.
LoginResponses == [access_token : Tokens \cup {Null}, user : Users \cup {Null}]

\* login(email, password, remember), up to the await of loginUser.
login(remember) ==
    /\ logins < MaxLogins
    /\ authLoading' = TRUE
    /\ pendingLogins' = pendingLogins (+) SetToBag({[remember |-> remember]})
    /\ logins' = logins + 1
    /\ UNCHANGED <<token, user, localStorage, sessionStorage, lastOp, lastRemember,
                   pageVars>>

\* loginUser resolves with data: setToken, setUser, persistAuth, and the finally
\* block.
LoginResolves(p, data) ==
    /\ BagIn(p, pendingLogins)
    /\ token' = data.access_token
    /\ user' = data.user
    /\ localStorage' = persistAuth(data.access_token, data.user, p.remember).localStorage
    /\ sessionStorage' = persistAuth(data.access_token, data.user, p.remember).sessionStorage
    /\ authLoading' = FALSE
    /\ pendingLogins' = pendingLogins (-) SetToBag({p})
    /\ lastOp' = "login"
    /\ lastRemember' = p.remember
    /\ UNCHANGED <<logins, pageVars>>

\* loginUser rejects: only the finally block runs.
LoginRejects(p) ==
    /\ BagIn(p, pendingLogins)
    /\ authLoading' = FALSE
    /\ pendingLogins' = pendingLogins (-) SetToBag({p})
    /\ lastOp' = IF lastOp = "none" THEN "failed" ELSE lastOp
    /\ UNCHANGED <<token, user, localStorage, sessionStorage, logins, lastRemember,
                   pageVars>>

\* logout(), also run by the auth:logout event.
logout ==
    /\ token' = Null
    /\ user' = Null
    /\ localStorage' = EmptyStorage
    /\ sessionStorage' = EmptyStorage
    /\ lastOp' = "logout"
    /\ UNCHANGED <<authLoading, pendingLogins, logins, lastRemember, pageVars>>

OnLogin == \E remember \in BOOLEAN : login(remember)
OnLoginResolved ==
    \E p \in BagToSet(pendingLogins), data \in LoginResponses : LoginResolves(p, data)
OnLoginRejected == \E p \in BagToSet(pendingLogins) : LoginRejects(p)

AuthNext ==
    \/ OnLogin
    \/ OnLoginResolved
    \/ OnLoginRejected
    \/ logout

AuthSpec == AuthInit /\ [][AuthNext]_vars

\* =====================================================================
\* Properties
\* =====================================================================
\* Every suspended call and every pending stop belongs to the current closure,
\* and the step does not change the id: the step is an event of the session.
SameSession ==
    /\ mounted
    /\ \A f \in BagToSet(inflight) : f.sess = sess
    /\ \A i \in 1..Len(stopsInFlight) : stopsInFlight[i] = sess

\* C1: once the session is in a terminal state (Completed, Error or Stopped),
\* no later event of the same session changes the state.  The state is terminal
\* under both readings of the exposed state, and the step is required to leave
\* it alone under at least one of them.
C1_TerminalAbsorbing ==
    [][(/\ SameSession
        /\ sess' = sess
        /\ StatusState \in TerminalStates
        /\ ViewState \in TerminalStates)
       => (StatusState' = StatusState \/ ViewState' = ViewState)]_vars

\* C2: at most one poll cycle of the session is outstanding in every reachable
\* state.
C2_SingleFlight ==
    BagCardinality([f \in {g \in BagToSet(inflight) : g.sess = sess} |-> inflight[f]])
        <= 1

\* C3: when a stop request has succeeded while the initial poll, started before
\* it, is still outstanding, the state is Stopped after that poll resolves
\* reporting status generating.
C3_StopTakesPrecedence ==
    [][(/\ stopAcked
        /\ sess = 0
        /\ attempts = 1
        /\ generationStatus = "stopped"
        /\ \E f \in BagToSet(inflight), r \in StatusPayloads :
              r.status = "generating" /\ StatusData(f, r))
       => (StatusState' = "Stopped" \/ ViewState' = "Stopped")]_vars

\* C4: after the first poll of the session failed and its direct result fetch
\* returned a usable result, the session is Completed with the result stored and
\* progress 100 in every later state of the session, as long as no stop request
\* has succeeded.
C4_FallbackCompletes ==
    (firstFallback = "ok" /\ mounted /\ ~stopAcked)
    => /\ result = ResultText
       /\ progress = Pct(Full)
       /\ (StatusState = "Completed" \/ ViewState = "Completed")

\* C5: after the first poll of the session failed and its direct result fetch
\* failed too, the session is in Error in every later state of the session, as
\* long as no stop request has succeeded, and the interval is cleared so that no
\* further poll cycle starts.
C5_FallbackFailsHalts ==
    (firstFallback = "failed" /\ mounted /\ ~stopAcked)
    => /\ StatusState = "Error" \/ ViewState = "Error"
       /\ pollInterval = "cleared"
       /\ ~ENABLED Tick

\* C6: when a poll returns status completed and the result fetch returns no
\* usable result, the session is still Generating after the cycle, with progress
\* below 100 and the poll counter incremented, and the interval is still armed.
C6_EmptyResultKeepsGenerating ==
    [][\A f \in BagToSet(inflight) :
          (inflight = SetToBag({f}) /\ f.sess = sess /\ stopsInFlight = <<>> /\ ResultEmpty(f))
          => /\ StatusState' = "Generating" \/ ViewState' = "Generating"
             /\ progress' < Pct(Full)
             /\ pollCount'[sess] >= 1
             /\ pollInterval' = "armed"]_vars

\* C7: at most one stop request is in flight, and while one is in flight the
\* stop entry point cannot be invoked again.
C7_OneStopCall ==
    /\ Len(stopsInFlight) <= 1
    /\ stopsInFlight # <<>> => ~ENABLED handleStopGeneration

C7_Witness ==
    /\ Len(stopsInFlight) = 1
    /\ StopDialogShown
    /\ stopInProgress

\* C8: whenever the session of the first id is terminal (Completed with its
\* result stored, Error, Stopped as shown, or Stopped by a stop request that
\* succeeded), or the page has been torn down, the interval is cleared.
C8_TimerReleased ==
    (\/ ~mounted
     \/ /\ sess = 0
        /\ \/ stopAcked /\ generationStatus = "stopped"
           \/ ViewState = "Completed" /\ result # NoResult
           \/ ViewState \in {"Error", "Stopped"})
    => pollInterval = "cleared"

\* C9: after the poll sequence generating(elapsed 5), generating(elapsed 10),
\* completed (no elapsed time) and a usable result, the page shows Completed
\* with progress 100 and the result stored, and the elapsed time is still 10.
C9_ScenarioCompleted ==
    scenario = "done"
    => /\ ViewState = "Completed"
       /\ StatusState = "Completed"
       /\ progress = Pct(Full)
       /\ result = ResultText
       /\ elapsedTime = 10
       /\ ~loading
       /\ pollInterval = "cleared"

C9_Witness ==
    /\ scenario = "done"
    /\ attempts = 3
    /\ pollCount[0] = 2

\* C10: for every poll count n, estimate(n) <= estimate(n + 1),
\* 10 <= estimate(n) <= 90 and estimate(n) < 100.
C10_EstimatorBounds ==
    estPhase = "out"
    => /\ estCur <= estNext
       /\ Pct(EstFloor) <= estCur
       /\ estCur <= Pct(EstCap)
       /\ estCur < Pct(Full)
       /\ estNext <= Pct(EstCap)

C10_Witness ==
    /\ estPhase = "out"
    /\ estN > EstDen
    /\ estCur = Pct(EstCap)

\* The call f is the only suspended call, it belongs to the current closure and
\* no stop request is pending.
SoleCall(f) ==
    /\ mounted
    /\ inflight = SetToBag({f})
    /\ f.sess = sess

\* C11: a stop request that failed does not keep a later completed result from
\* being exposed: when the stop-failure message is the recorded error and a poll
\* cycle then stores the usable result, the page shows the result (state
\* Completed) and not the error branch.
C11_StopFailureNotFatal ==
    [][\A f \in BagToSet(inflight) :
          (/\ SoleCall(f)
           /\ stopsInFlight = <<>>
           /\ error = StopFailedMsg
           /\ \E r \in ResultPayloads : ResultUsable(f, r))
          => ViewState' = "Completed"]_vars

\* C12: while a stop request of the session is in flight, no poll cycle is
\* started.
C12_StopSuppressesPolling ==
    [][(/\ mounted
        /\ stopInProgress
        /\ \E i \in 1..Len(stopsInFlight) : stopsInFlight[i] = sess)
       => ~Tick]_vars

\* C13: a stop request is never in flight at the same time as a status fetch or
\* a result fetch of the session.
C13_OneNetworkCall ==
    (mounted /\ \E i \in 1..Len(stopsInFlight) : stopsInFlight[i] = sess)
    => ~\E f \in BagToSet(inflight) :
           f.sess = sess /\ f.pc \in {"status", "result", "direct"}

\* C14: a status fetch that fails on a poll attempt that is not the first of the
\* session puts the session in Error with the failure message, clears the
\* interval and starts no direct result fetch.
C14_FallbackOnlyOnFirstAttempt ==
    [][\A f \in BagToSet(inflight) :
          (SoleCall(f) /\ ~f.first /\ stopsInFlight = <<>> /\ StatusFails(f))
          => /\ error' = CheckFailedMsg
             /\ pollInterval' = "cleared"
             /\ \A g \in BagToSet(inflight') : g.pc # "direct"]_vars

\* C15: a poll outcome that leaves the session Generating does not lower the
\* progress below the value it had before.
C15_ProgressMonotone ==
    [][\A f \in BagToSet(inflight) :
          (/\ SoleCall(f)
           /\ stopsInFlight = <<>>
           /\ \E r \in StatusPayloads : StatusData(f, r)
           /\ StatusState' = "Generating"
           /\ ViewState' = "Generating")
          => progress' >= progress]_vars

\* C16: in every state in which no result is stored, progress is below 100.
C16_FullOnlyWhenCompleted ==
    (mounted /\ result = NoResult) => progress < Pct(Full)

\* C17: once the result is stored and the session is Completed, with no poll
\* cycle outstanding, the session stays Completed: result present implies state
\* Completed.
C17_ResultImpliesCompleted ==
    [][(/\ mounted
        /\ sess' = sess
        /\ inflight = EmptyBag
        /\ result # NoResult
        /\ StatusState = "Completed"
        /\ ViewState = "Completed")
       => /\ result' = result
          /\ (StatusState' = "Completed" \/ ViewState' = "Completed")]_vars

\* The status responses that report error or stopped.
HaltingPayloads == {r \in StatusPayloads : r.status \in {"error", "stopped"}}

\* C18: a status fetch of the session that reports error puts the session in
\* Error with the server's message, or the default message when there is none,
\* and one that reports stopped puts it in Stopped with the fixed message; in
\* both cases the interval is cleared in the same step, so that no further poll
\* cycle starts.
C18_ErrorAndStoppedHalt ==
    [][\A f \in BagToSet(inflight), r \in HaltingPayloads :
          (f.sess = sess /\ f.pc = "status" /\ StatusData(f, r))
          => /\ generationStatus' = r.status
             /\ r.status = "error" =>
                   /\ error' = (IF r.error = NoError THEN DefaultErrorMsg ELSE r.error)
                   /\ StatusState' = "Error"
                   /\ ViewState' = "Error"
             /\ r.status = "stopped" =>
                   /\ error' = StoppedMsg
                   /\ StatusState' = "Stopped"
                   /\ ViewState' = "Stopped"
             /\ pollInterval' = "cleared"
             /\ ~TickEnabled'
             /\ ~loading']_vars

C18_Witness ==
    /\ mounted
    /\ generationStatus = "error"
    /\ error = DefaultErrorMsg
    /\ pollInterval = "cleared"
    /\ inflight = EmptyBag
    /\ attempts = 2

\* The descriptive fields that the response d does not carry are, after the
\* step, what they were before it.
AbsentFieldsKept(d) ==
    /\ d.model = Absent => generationDetails'.model = generationDetails.model
    /\ d.searchEngine = Absent
          => generationDetails'.searchEngine = generationDetails.searchEngine
    /\ d.prompt = Absent => generationDetails'.prompt = generationDetails.prompt

\* C19: applying a status response or a result response leaves every
\* descriptive field (elapsed time, model, search engine, prompt) that the
\* response does not carry as it was; a result response carries no elapsed time.
C19_FieldsAdditive ==
    [][\A f \in BagToSet(inflight) :
          /\ \A r \in DetStatusPayloads :
                (f.pc = "status" /\ StatusData(f, r))
                => /\ AbsentFieldsKept(r.details)
                   /\ r.elapsedTime = 0 => elapsedTime' = elapsedTime
          /\ \A r \in ResultPayloadsWith(DetailInputs) :
                (f.pc \in {"result", "direct"} /\ (ResultUsable(f, r) \/ DirectUsable(f, r)))
                => /\ AbsentFieldsKept(r.details)
                   /\ elapsedTime' = elapsedTime]_vars

\* The model the navigation carried and the elapsed time of an earlier response
\* are still there after responses that carried a prompt and a search engine.
C19_Witness ==
    /\ generationDetails = [model |-> "o1", searchEngine |-> "google",
                            prompt |-> "write a report"]
    /\ elapsedTime = 5
    /\ generationStatus = "completed"
    /\ result = ResultText

\* C20: with every tick firing and every request settling, once the server
\* reports completed for good and returns a usable result, the session
\* eventually is Completed with the result stored, the interval cleared and the
\* loading flag false.
C20_EventuallyCompleted ==
    serverCompleted
    ~> (/\ StatusState = "Completed" \/ ViewState = "Completed"
        /\ result = ResultText
        /\ pollInterval = "cleared"
        /\ ~loading)

\* C21: in every state in which the page is mounted and the session is not
\* terminal (status generating, no result stored, no error recorded), the
\* interval is still armed.
C21_PollingStopsOnlyOnTerminal ==
    (/\ mounted
     /\ generationStatus = "generating"
     /\ result = NoResult
     /\ error = NoError)
    => pollInterval = "armed"

\* A session that is still generating after all the poll cycles the bound
\* allows, with no call outstanding.
C21_Witness ==
    /\ mounted
    /\ generationStatus = "generating"
    /\ result = NoResult
    /\ error = NoError
    /\ pollInterval = "armed"
    /\ attempts = MaxAttempts
    /\ pollCount[sess] >= 1
    /\ inflight = EmptyBag

\* C22: a status fetch issued under an earlier id that resolves after the id
\* changed is not applied: it leaves the status, the elapsed time, the
\* progress, the result and the error as they are.
C22_StaleFetchNotApplied ==
    [][\A f \in BagToSet(inflight) :
          (/\ mounted
           /\ f.sess # sess
           /\ f.pc = "status"
           /\ \E r \in StatusPayloads : StatusData(f, r))
          => UNCHANGED <<generationStatus, elapsedTime, progress, result, error>>]_vars

\* C23: when no login is outstanding, the in-memory token is the token read
\* back from storage, at most one of the two storages holds the items (the
\* local one exactly when the last login that resolved passed remember), and
\* after a logout both storages are empty and isAuthenticated is false.
C23_CredentialStoreConsistent ==
    pendingLogins = EmptyBag
    => /\ token = getStoredItem("authToken")
       /\ localStorage = EmptyStorage \/ sessionStorage = EmptyStorage
       /\ lastOp = "login"
             => /\ lastRemember => sessionStorage = EmptyStorage
                /\ ~lastRemember => localStorage = EmptyStorage
       /\ lastOp = "logout"
             => /\ localStorage = EmptyStorage
                /\ sessionStorage = EmptyStorage
                /\ ~isAuthenticated

====
